---- MODULE Spec2Model ----
\* A model of danvixent/pgxtls: NewFromCfgMap (src/pool.go:22-85) and
\* withPassphrase (src/pool.go:91-122), with the parts of the pgx driver and
\* of the Go standard library that the two functions call modelled by what
\* they do on the inputs NewFromCfgMap gives them.
\*
\* Strings that are rendered into the connection string are sequences of
\* one-character strings, so that rendering and parsing work on characters.
EXTENDS Integers, Sequences, FiniteSets, TLC

VARIABLES
    desc,       \* the *config.ConfigMap argument (never written by the code)
    env,        \* what the call has read from the host so far: the files
                \* and the system trust store
    pc,         \* position of the one NewFromCfgMap call
    cfg,        \* cfg, the *pgxpool.Config being assembled (pool.go:32)
    xPool,      \* xPool, the *x509.CertPool local (pool.go:45)
    cert,       \* cert, the *tls.Certificate local (pool.go:63)
    pool,       \* first result of NewFromCfgMap
    err,        \* second result of NewFromCfgMap
    steps,      \* the steps executed so far, in order (history)
    handed,     \* the configurations given to pool.ConnectConfig (history)
    attempts,   \* the TLS configuration of each connection attempt (history)
    clock,      \* minutes since pool.ConnectConfig was called
    cancelled,  \* the caller's ctx has been cancelled
    keyTrace,   \* what withPassphrase did with the key block (history)
    sysRead     \* x509.SystemCertPool() has been called (history)

vars == <<desc, env, pc, cfg, xPool, cert, pool, err, steps, handed,
          attempts, clock, cancelled, keyTrace, sysRead>>

-----------------------------------------------------------------------------
\* Bounds of the model.

\* Longest hostile field value drawn for the connection-string check.
MaxLen == 2
\* Most PEM blocks in a CA bundle file.
MaxBlocks == 2
\* Minutes the clock may run while a dial is blocked (the operating
\* system's own connect timeout is beyond the driver's).
MaxClock == 2

\* cfg.ConnConfig.ConnectTimeout = time.Minute, in minutes.
ConnectTimeout == 1

-----------------------------------------------------------------------------
\* Character sequences.

Digits == <<"0", "1", "2", "3", "4", "5", "6", "7", "8", "9">>
DigitSet == {Digits[i] : i \in 1..10}
Letters ==
    {"a", "b", "c", "d", "e", "f", "g", "h", "i", "j", "k", "l", "m", "n", "o",
     "p", "q", "r", "s", "t", "u", "v", "w", "x", "y", "z"}
HexSet == DigitSet \cup {"a", "b", "c", "d", "e", "f", "A", "B", "C", "D", "E", "F"}

\* strings.Index(s, c) + 1, 0 when absent.
RECURSIVE IndexFrom(_, _, _)
IndexFrom(s, c, i) ==
    IF i > Len(s) THEN 0
    ELSE IF s[i] = c THEN i
    ELSE IndexFrom(s, c, i + 1)

Index(s, c) == IndexFrom(s, c, 1)

\* strings.LastIndex(s, c) + 1, 0 when absent.
RECURSIVE LastIndexFrom(_, _, _)
LastIndexFrom(s, c, i) ==
    IF i < 1 THEN 0
    ELSE IF s[i] = c THEN i
    ELSE LastIndexFrom(s, c, i - 1)

LastIndex(s, c) == LastIndexFrom(s, c, Len(s))

Before(s, i) == SubSeq(s, 1, i - 1)
After(s, i) == SubSeq(s, i + 1, Len(s))

DropFirst(s, n) == SubSeq(s, n + 1, Len(s))

\* strings.Cut(s, c): before, after (all of s and "" when c is absent).
CutBefore(s, c) == IF Index(s, c) = 0 THEN s ELSE Before(s, Index(s, c))
CutAfter(s, c) == IF Index(s, c) = 0 THEN <<>> ELSE After(s, Index(s, c))

\* strings.Split(s, c) as a sequence of pieces.
RECURSIVE Split(_, _)
Split(s, c) ==
    IF Index(s, c) = 0 THEN <<s>>
    ELSE <<Before(s, Index(s, c))>> \o Split(After(s, Index(s, c)), c)

\* strings.TrimLeft(s, c).
RECURSIVE TrimLeft(_, _)
TrimLeft(s, c) ==
    IF s # <<>> /\ s[1] = c THEN TrimLeft(Tail(s), c) ELSE s

\* fmt's %d of an unsigned integer.
RECURSIVE Itoa(_)
Itoa(n) ==
    IF n < 10 THEN <<Digits[n + 1]>>
    ELSE Itoa(n \div 10) \o <<Digits[(n % 10) + 1]>>

DigitValue(c) == CHOOSE i \in 0..9 : Digits[i + 1] = c

AllDigits(s) == \A i \in 1..Len(s) : s[i] \in DigitSet

\* strconv.ParseUint / ParseInt of an unsigned decimal: -1 when s is not one.
RECURSIVE AtoiAcc(_, _)
AtoiAcc(s, acc) ==
    IF s = <<>> THEN acc
    ELSE AtoiAcc(Tail(s), acc * 10 + DigitValue(s[1]))

Atoi(s) == IF s = <<>> \/ ~AllDigits(s) THEN -1 ELSE AtoiAcc(s, 0)

-----------------------------------------------------------------------------
\* net/url, as pgconn.ParseConfig uses it on the rendered connection string.

Scheme == <<"p", "o", "s", "t", "g", "r", "e", "s">>
KeySSLMode == <<"s", "s", "l", "m", "o", "d", "e">>
KeyPoolMaxConns ==
    <<"p", "o", "o", "l", "_", "m", "a", "x", "_", "c", "o", "n", "n", "s">>
KeyHost == <<"h", "o", "s", "t">>
KeyPort == <<"p", "o", "r", "t">>
KeyUser == <<"u", "s", "e", "r">>
KeyPassword == <<"p", "a", "s", "s", "w", "o", "r", "d">>
KeyDatabase == <<"d", "a", "t", "a", "b", "a", "s", "e">>
KeyDbname == <<"d", "b", "n", "a", "m", "e">>

ModeDisable == <<"d", "i", "s", "a", "b", "l", "e">>
ModeAllow == <<"a", "l", "l", "o", "w">>
ModePrefer == <<"p", "r", "e", "f", "e", "r">>
ModeRequire == <<"r", "e", "q", "u", "i", "r", "e">>
ModeVerifyCA == <<"v", "e", "r", "i", "f", "y", "-", "c", "a">>
ModeVerifyFull == <<"v", "e", "r", "i", "f", "y", "-", "f", "u", "l", "l">>
ValidModes ==
    {ModeDisable, ModeAllow, ModePrefer, ModeRequire, ModeVerifyCA, ModeVerifyFull}

\* What the driver falls back to when the connection string leaves a
\* setting out (pgconn's defaultSettings, pgxpool's defaultMaxConns): the
\* operating-system user, localhost:5432, four connections.
DefaultUser == <<"o", "s", "u", "s", "e", "r">>
DefaultHost == <<"l", "o", "c", "a", "l", "h", "o", "s", "t">>
DefaultPort == 5432
DefaultMaxConns == 4

\* The byte a %XY escape stands for: the character itself when it is one the
\* model writes, else a token for the byte.
Unhex(h1, h2) ==
    CASE <<h1, h2>> = <<"6", "1">> -> "a"
      [] <<h1, h2>> = <<"3", "5">> -> "5"
      [] <<h1, h2>> = <<"4", "0">> -> "@"
      [] <<h1, h2>> \in {<<"3", "a">>, <<"3", "A">>} -> ":"
      [] <<h1, h2>> \in {<<"2", "f">>, <<"2", "F">>} -> "/"
      [] <<h1, h2>> \in {<<"3", "f">>, <<"3", "F">>} -> "?"
      [] <<h1, h2>> = <<"2", "3">> -> "#"
      [] <<h1, h2>> = <<"2", "6">> -> "&"
      [] <<h1, h2>> = <<"2", "5">> -> "%"
      [] <<h1, h2>> \in {<<"3", "d">>, <<"3", "D">>} -> "="
      [] OTHER -> "%" \o h1 \o h2

\* url.unescape: every % must start a %XY escape.
RECURSIVE EscapesOK(_)
EscapesOK(s) ==
    IF s = <<>> THEN TRUE
    ELSE IF s[1] = "%"
         THEN Len(s) >= 3 /\ s[2] \in HexSet /\ s[3] \in HexSet
              /\ EscapesOK(SubSeq(s, 4, Len(s)))
    ELSE EscapesOK(Tail(s))

RECURSIVE Decode(_)
Decode(s) ==
    IF s = <<>> THEN <<>>
    ELSE IF s[1] = "%"
         THEN <<Unhex(s[2], s[3])>> \o Decode(SubSeq(s, 4, Len(s)))
    ELSE <<s[1]>> \o Decode(Tail(s))

\* url.unescape in the host: an escape may only stand for a non-ASCII byte
\* (or be %25), and the characters are those a host may hold.
HostChars ==
    DigitSet \cup Letters
        \cup {"-", "_", ".", "~", "!", "$", "&", "'", "(", ")", "*",
              "+", ",", ";", "=", ":", "[", "]", "<", ">"}

RECURSIVE HostEscapesOK(_)
HostEscapesOK(s) ==
    IF s = <<>> THEN TRUE
    ELSE IF s[1] = "%"
         THEN /\ Len(s) >= 3 /\ s[2] \in HexSet /\ s[3] \in HexSet
              /\ (s[2] \notin {"0", "1", "2", "3", "4", "5", "6", "7"}
                  \/ <<s[2], s[3]>> = <<"2", "5">>)
              /\ HostEscapesOK(SubSeq(s, 4, Len(s)))
    ELSE s[1] \in HostChars /\ HostEscapesOK(Tail(s))

\* url.validOptionalPort: "" or ":" followed by digits only.
ValidOptionalPort(p) == p = <<>> \/ (p[1] = ":" /\ AllDigits(Tail(p)))

\* url.validUserinfo.
UserinfoChars ==
    DigitSet \cup Letters
        \cup {"-", ".", "_", ":", "~", "!", "$", "&", "'", "(", ")", "*",
              "+", ",", ";", "=", "%", "@"}
ValidUserinfo(s) == \A i \in 1..Len(s) : s[i] \in UserinfoChars

\* url.parseHost (no "[" in the model's alphabet): the text after the last
\* colon must be a port, then the host is unescaped.
ParseHostOK(h) ==
    /\ LastIndex(h, ":") # 0 =>
           ValidOptionalPort(SubSeq(h, LastIndex(h, ":"), Len(h)))
    /\ HostEscapesOK(h)

\* url.parseAuthority once the authority is split at its LAST "@": the host
\* is checked first, then the user information, which is cut at its first
\* ":" into name and password.
AuthorityParts(hostPart, hasAt, userinfo) ==
    IF ~ParseHostOK(hostPart) THEN [ok |-> FALSE]
    ELSE IF ~hasAt
         THEN [ok |-> TRUE, hasUser |-> FALSE, Username |-> <<>>,
               hasPassword |-> FALSE, Password |-> <<>>,
               Host |-> Decode(hostPart)]
    ELSE IF \/ ~ValidUserinfo(userinfo)
            \/ ~EscapesOK(CutBefore(userinfo, ":"))
            \/ ~EscapesOK(CutAfter(userinfo, ":"))
         THEN [ok |-> FALSE]
    ELSE [ok |-> TRUE, hasUser |-> TRUE,
          Username |-> Decode(CutBefore(userinfo, ":")),
          hasPassword |-> Index(userinfo, ":") # 0,
          Password |-> Decode(CutAfter(userinfo, ":")),
          Host |-> Decode(hostPart)]

\* url.parseAuthority: the user information is what precedes the LAST "@".
ParseAuthority(a) ==
    IF LastIndex(a, "@") = 0
    THEN AuthorityParts(a, FALSE, <<>>)
    ELSE AuthorityParts(After(a, LastIndex(a, "@")), TRUE,
                        Before(a, LastIndex(a, "@")))

\* The path of a URL: from the first "/" after the authority to the end.
PathOf(a) == IF Index(a, "/") = 0 THEN <<>> ELSE SubSeq(a, Index(a, "/"), Len(a))

\* The URL value, or the error of its authority, path or fragment.
UrlResult(auth, path, rawQuery, frag) ==
    IF ~auth.ok \/ ~EscapesOK(path) \/ ~EscapesOK(frag)
    THEN [ok |-> FALSE]
    ELSE [ok |-> TRUE, User |-> auth, Host |-> auth.Host,
          Path |-> Decode(path), RawQuery |-> rawQuery]

\* What follows "postgres:": the query is cut at the first "?", the
\* authority is what follows the "//" up to the first "/".
UrlRest(rest, frag) ==
    UrlResult(ParseAuthority(CutBefore(Tail(Tail(CutBefore(rest, "?"))), "/")),
              PathOf(Tail(Tail(CutBefore(rest, "?")))),
              CutAfter(rest, "?"), frag)

\* url.Parse of a string that starts "postgres://": the fragment is cut at
\* the first "#" before anything else.
UrlParse(raw) ==
    UrlRest(DropFirst(CutBefore(raw, "#"), Len(Scheme) + 1), CutAfter(raw, "#"))

\* url.ParseQuery, whose error url.Query() drops: the pairs in order, a pair
\* with an empty key or a bad escape left out.
RECURSIVE QueryPairs(_)
QueryPairs(pieces) ==
    IF pieces = <<>> THEN <<>>
    ELSE LET piece == Head(pieces)
             k == CutBefore(piece, "=")
             v == CutAfter(piece, "=")
         IN  IF piece = <<>> \/ ~EscapesOK(k) \/ ~EscapesOK(v)
             THEN QueryPairs(Tail(pieces))
             ELSE <<[key |-> Decode(k), value |-> Decode(v)]>>
                  \o QueryPairs(Tail(pieces))

ParseQuery(q) == IF q = <<>> THEN <<>> ELSE QueryPairs(Split(q, "&"))

\* settings[k] = v[0]: the first value the query gives key k.
HasKey(pairs, k) == \E i \in 1..Len(pairs) : pairs[i].key = k
FirstValue(pairs, k) ==
    pairs[CHOOSE i \in 1..Len(pairs) :
              /\ pairs[i].key = k
              /\ \A j \in 1..(i - 1) : pairs[j].key # k].value

-----------------------------------------------------------------------------
\* pgconn / pgxpool ParseConfig, called at pool.go:32.

\* A *tls.Config, nil when present is FALSE. RootCAs.nil stands for the nil
\* pool, with which crypto/tls uses the system roots.
NilCertPool == [nil |-> TRUE, certs |-> {}]
NilTLS ==
    [present |-> FALSE, Certificates |-> <<>>, RootCAs |-> NilCertPool,
     ServerName |-> <<>>, InsecureSkipVerify |-> FALSE]

\* pgconn.configTLS without sslcert/sslkey/sslrootcert settings: the TLS
\* configurations to try, in order, for an SSL mode.
ConfigTLS(sslmode, host) ==
    LET skip == [NilTLS EXCEPT !.present = TRUE, !.InsecureSkipVerify = TRUE]
        full == [NilTLS EXCEPT !.present = TRUE, !.ServerName = host]
    IN  CASE sslmode = ModeDisable -> <<NilTLS>>
          [] sslmode = ModeAllow -> <<NilTLS, skip>>
          [] sslmode = ModePrefer -> <<skip, NilTLS>>
          [] sslmode \in {ModeRequire, ModeVerifyCA} -> <<skip>>
          [] sslmode = ModeVerifyFull -> <<full>>

\* net.ParseIP on a text of hex digits and colons, split at the colons: an
\* IPv6 address is eight groups of one to four hex digits, or fewer with
\* one "::".
IPv6Groups(g, empty) ==
    /\ Len(g) >= 3
    /\ \A i \in 1..Len(g) :
           /\ Len(g[i]) <= 4
           /\ \A j \in 1..Len(g[i]) : g[i][j] \in HexSet
    /\ \/ empty = {} /\ Len(g) = 8
       \/ /\ Len(g) - Cardinality(empty) <= 7
          /\ \/ \E k \in 2..(Len(g) - 1) : empty = {k}
             \/ empty = {1, 2}
             \/ empty = {Len(g) - 1, Len(g)}
             \/ Len(g) = 3 /\ empty = {1, 2, 3}

EmptyGroups(g) == {i \in 1..Len(g) : g[i] = <<>>}

IsIPv6(h) == IPv6Groups(Split(h, ":"), EmptyGroups(Split(h, ":")))

\* pgconn.isIPOnly.
IsIPOnly(h) == IsIPv6(h) \/ Index(h, ":") = 0

\* pgconn.parseURLSettings on url.Host (one host: the model writes no ","):
\* host and port as settings, "" for one the URL does not give.
HostSettings(h) ==
    IF h = <<>> THEN [ok |-> TRUE, host |-> <<>>, port |-> <<>>]
    ELSE IF IsIPOnly(h) THEN [ok |-> TRUE, host |-> h, port |-> <<>>]
    ELSE IF Index(Before(h, LastIndex(h, ":")), ":") # 0 THEN [ok |-> FALSE]
    ELSE [ok |-> TRUE, host |-> Before(h, LastIndex(h, ":")),
          port |-> After(h, LastIndex(h, ":"))]

\* The settings the model can spell that are not runtime parameters.
NotRuntimeParams ==
    {KeyHost, KeyPort, KeyDatabase, KeyUser, KeyPassword, KeySSLMode}

BadConfig ==
    [ok |-> FALSE, User |-> <<>>, Password |-> <<>>, Host |-> <<>>, Port |-> 0,
     Database |-> <<>>, SSLMode |-> <<>>, MaxConns |-> 0, RuntimeParams |-> {},
     TLSConfig |-> NilTLS, Fallbacks |-> <<>>, AfterConnect |-> FALSE,
     DialFunc |-> "default", PreferSimpleProtocol |-> FALSE,
     ConnectTimeout |-> 0]

\* nameMap in parseURLSettings: dbname is database.
RenameKeys(pairs) ==
    [i \in 1..Len(pairs) |->
        IF pairs[i].key = KeyDbname
        THEN [pairs[i] EXCEPT !.key = KeyDatabase]
        ELSE pairs[i]]

\* A setting: the query's value when the query names it, else the URL's (or
\* the default).
Setting(pairs, k, other) ==
    IF HasKey(pairs, k) THEN FirstValue(pairs, k) ELSE other

\* configTLS: no sslmode, or an empty one, is prefer.
EffectiveMode(m) == IF m = <<>> THEN ModePrefer ELSE m

\* The checks ParseConfig makes on the merged settings, and the
\* configuration it builds: primary TLS configuration and fallbacks from
\* the SSL mode.
BuildConfig(user, password, host, port, database, sslmode, maxConns, params) ==
    IF port < 1 \/ port > 65535 THEN BadConfig
    ELSE IF sslmode \notin ValidModes THEN BadConfig
    ELSE IF maxConns < 1 THEN BadConfig
    ELSE [BadConfig EXCEPT
             !.ok = TRUE, !.User = user, !.Password = password,
             !.Host = host, !.Port = port, !.Database = database,
             !.SSLMode = sslmode, !.MaxConns = maxConns,
             !.RuntimeParams = params,
             !.TLSConfig = Head(ConfigTLS(sslmode, host)),
             !.Fallbacks = Tail(ConfigTLS(sslmode, host))]

\* mergeSettings: the URL's user, password, host, port and path, overridden
\* by the query, over the defaults.
MergeSettings(url, hs, pairs) ==
    IF ~hs.ok THEN BadConfig
    ELSE BuildConfig(
        Setting(pairs, KeyUser,
                IF url.User.hasUser THEN url.User.Username ELSE DefaultUser),
        Setting(pairs, KeyPassword,
                IF url.User.hasPassword THEN url.User.Password ELSE <<>>),
        Setting(pairs, KeyHost, IF hs.host # <<>> THEN hs.host ELSE DefaultHost),
        Atoi(Setting(pairs, KeyPort,
                     IF hs.port # <<>> THEN hs.port ELSE Itoa(DefaultPort))),
        Setting(pairs, KeyDatabase, TrimLeft(url.Path, "/")),
        EffectiveMode(Setting(pairs, KeySSLMode, <<>>)),
        IF HasKey(pairs, KeyPoolMaxConns)
        THEN Atoi(FirstValue(pairs, KeyPoolMaxConns))
        ELSE DefaultMaxConns,
        {pairs[i].key : i \in 1..Len(pairs)}
            \ (NotRuntimeParams \cup {KeyPoolMaxConns}))

ConfigFromURL(url) ==
    IF ~url.ok THEN BadConfig
    ELSE MergeSettings(url, HostSettings(url.Host),
                       RenameKeys(ParseQuery(url.RawQuery)))

\* pgxpool.ParseConfig(uri): the parsed configuration, ok FALSE on an error.
ParseConfig(uri) == ConfigFromURL(UrlParse(uri))

\* fmt.Sprintf(format, ...) at pool.go:24-30: the fields are written as they
\* are, with no escaping.
RenderURI(d) ==
    Scheme \o <<":", "/", "/">> \o d.DbUser \o <<":">> \o d.Password \o <<"@">>
        \o d.DbHost \o <<":">> \o Itoa(d.DbPort) \o <<"/">> \o d.DbName
        \o <<"?">> \o KeySSLMode \o <<"=">> \o d.SSLMode
        \o <<"&">> \o KeyPoolMaxConns \o <<"=">> \o Itoa(d.MaxConns)

-----------------------------------------------------------------------------
\* Files, PEM and x509, as pool.go:45-61 and withPassphrase use them.

\* A file as ioutil.ReadFile sees it: unreadable, or a sequence of PEM blocks
\* (text outside the blocks is skipped by pem.Decode and left out).
Unreadable == [readable |-> FALSE, blocks |-> <<>>]
File(blocks) == [readable |-> TRUE, blocks |-> blocks]

\* Blocks of a CA bundle: a certificate that parses, one that does not, and
\* a block of another type.
CertBlock(id) == [Type |-> "CERTIFICATE", parses |-> TRUE, id |-> id]
BadCertBlock == [Type |-> "CERTIFICATE", parses |-> FALSE, id |-> "bad"]
OtherBlock == [Type |-> "X509 CRL", parses |-> FALSE, id |-> "crl"]

\* (*CertPool).AppendCertsFromPEM: the certificates added; ok is that there
\* is at least one. A block of another type, or a certificate that does not
\* parse, is skipped.
RECURSIVE AppendCertsFromPEM(_)
AppendCertsFromPEM(blocks) ==
    IF blocks = <<>> THEN {}
    ELSE IF Head(blocks).Type # "CERTIFICATE" \/ ~Head(blocks).parses
         THEN AppendCertsFromPEM(Tail(blocks))
    ELSE {Head(blocks).id} \cup AppendCertsFromPEM(Tail(blocks))

\* A pool that starts from the system roots instead of empty.
CABundlePoolMerged(e) ==
    [nil |-> FALSE,
     certs |-> {"root1", "root2"} \cup AppendCertsFromPEM(e.caFile.blocks)]

\* The pool built on the CA-file branch, pool.go:56-57: a NEW pool, then the
\* file's certificates.
CABundlePool(e) ==
    [nil |-> FALSE, certs |-> AppendCertsFromPEM(e.caFile.blocks)]

\* Returning err itself, which is nil when the system pool was fetched.
SystemPoolErrorBare(sysErr) == sysErr

\* The error returned at pool.go:49: fmt.Errorf gives a non-nil error whatever
\* err holds.
SystemPoolError(sysErr) == "unable to retrieve system cert pool"

\* A key block: dek is its DEK-Info header ("none" when the block is not
\* encrypted, "unknown" for a cipher x509 does not know), pass the passphrase
\* it was encrypted with, key the private key inside.
NoBlock == [isNil |-> TRUE, dek |-> "none", pass |-> "", key |-> ""]
KeyBlock(dek, pass, key) ==
    [isNil |-> FALSE, dek |-> dek, pass |-> pass, key |-> key]

\* pem.Decode: the first block of the data, nil when there is none.
PemDecode(file) == IF file.blocks = <<>> THEN NoBlock ELSE Head(file.blocks)

NoDER == [kind |-> "none", key |-> ""]

\* x509.DecryptPEMBlock(b, password). b.Headers of a nil b is a nil-pointer
\* dereference. With a wrong password the padding check usually fails;
\* when the padding happens to look right (padOK) the bytes returned are
\* noise.
DecryptPEMBlock(b, password, padOK) ==
    IF b.isNil THEN [panic |-> TRUE, err |-> "nil", der |-> NoDER]
    ELSE IF b.dek = "none"
         THEN [panic |-> FALSE, err |-> "x509: no DEK-Info header in block",
               der |-> NoDER]
    ELSE IF b.dek = "unknown"
         THEN [panic |-> FALSE, err |-> "x509: unknown encryption mode",
               der |-> NoDER]
    ELSE IF password = b.pass
         THEN [panic |-> FALSE, err |-> "nil",
               der |-> [kind |-> "key", key |-> b.key]]
    ELSE IF padOK
         THEN [panic |-> FALSE, err |-> "nil",
               der |-> [kind |-> "noise", key |-> ""]]
    ELSE [panic |-> FALSE, err |-> "x509: decryption password incorrect",
          der |-> NoDER]

NoCert == [present |-> FALSE, cert |-> "", key |-> ""]

\* tls.X509KeyPair(certPEM, keyPEM): the certificate file must hold a
\* certificate, the key must parse, and it must be the certificate's key.
X509KeyPair(certFile, der) ==
    IF certFile.blocks = <<>> \/ ~Head(certFile.blocks).parses
        THEN [err |-> "tls: failed to find certificate", cert |-> NoCert]
    ELSE IF der.kind # "key"
        THEN [err |-> "tls: failed to parse private key", cert |-> NoCert]
    ELSE IF der.key # Head(certFile.blocks).id
        THEN [err |-> "tls: private key does not match public key",
              cert |-> NoCert]
    ELSE [err |-> "nil",
          cert |-> [present |-> TRUE, cert |-> Head(certFile.blocks).id,
                    key |-> der.key]]

\* The result of withPassphrase and what it did on the way: decrypt is the
\* outcome of the decryption ("none" when it was not reached), paired the
\* key bytes given to tls.X509KeyPair.
Result(panic, e, c, decrypt, paired) ==
    [panic |-> panic, err |-> e, cert |-> c, decrypt |-> decrypt,
     paired |-> paired]

\* A withPassphrase that decrypts only a block that says it is encrypted.
withPassphraseLenient(e, password, padOK) ==
    LET keyBlock == PemDecode(e.keyFile)
        dec == DecryptPEMBlock(keyBlock, password, padOK)
        raw == [kind |-> "key", key |-> keyBlock.key]
        der == IF ~keyBlock.isNil /\ keyBlock.dek = "none" THEN raw ELSE dec.der
        pair == X509KeyPair(e.certFile, der)
    IN  IF ~e.keyFile.readable
            THEN Result(FALSE, "read key file", NoCert, "none", "none")
        ELSE IF ~e.certFile.readable
            THEN Result(FALSE, "read cert file", NoCert, "none", "none")
        ELSE IF ~keyBlock.isNil /\ keyBlock.dek = "none"
            THEN Result(FALSE, pair.err, pair.cert, "none", "raw")
        ELSE IF dec.panic
            THEN Result(TRUE, "nil", NoCert, "panic", "none")
        ELSE IF dec.err # "nil"
            THEN Result(FALSE, dec.err, NoCert, "error", "none")
        ELSE Result(FALSE, pair.err, pair.cert, der.kind, "decrypted")

\* withPassphrase(pathToCert, pathToKey, password), pool.go:91-122, on the
\* files of host e.
withPassphrase(e, password, padOK) ==
    LET keyBlock == PemDecode(e.keyFile)
        dec == DecryptPEMBlock(keyBlock, password, padOK)
        pair == X509KeyPair(e.certFile, dec.der)
    IN  IF ~e.keyFile.readable
            THEN Result(FALSE, "read key file", NoCert, "none", "none")
        ELSE IF ~e.certFile.readable
            THEN Result(FALSE, "read cert file", NoCert, "none", "none")
        ELSE IF dec.panic
            THEN Result(TRUE, "nil", NoCert, "panic", "none")
        ELSE IF dec.err # "nil"
            THEN Result(FALSE, dec.err, NoCert, "error", "none")
        ELSE Result(FALSE, pair.err, pair.cert, dec.der.kind, "decrypted")

-----------------------------------------------------------------------------
\* The descriptors and hosts the model starts from.

\* A complete descriptor with nothing in it that needs escaping.
PlainDesc ==
    [DbUser |-> <<"u">>, Password |-> <<"p">>, DbHost |-> <<"h">>,
     DbPort |-> 5432, DbName |-> <<"d", "b">>, SSLMode |-> ModeRequire,
     MaxConns |-> 10, SSLCAFile |-> "ca.pem", SSLCertFile |-> "client.crt",
     SSLKeyFile |-> "client.key", SSLKeyFilePassPhrase |-> "pw",
     SSLHostname |-> <<"d", "b", "h">>]

Descriptors ==
    {[PlainDesc EXCEPT !.SSLMode = m, !.SSLCAFile = ca,
                       !.SSLKeyFilePassPhrase = pw, !.SSLHostname = hn] :
        m \in ValidModes \cup {<<"x">>}, ca \in {"", "ca.pem"},
        pw \in {"", "pw"}, hn \in {<<>>, <<"d", "b", "h">>}}

\* Sequences over S of length at most n.
SeqsUpTo(S, n) == UNION {[1..k -> S] : k \in 0..n}

SystemRoots == {"root1", "root2"}
SysStores == {[ok |-> TRUE, certs |-> SystemRoots], [ok |-> FALSE, certs |-> {}]}

CAFiles ==
    {Unreadable}
        \cup {File(b) : b \in SeqsUpTo({CertBlock("ca1"), CertBlock("root1"),
                                        BadCertBlock, OtherBlock}, MaxBlocks)}

KeyFiles ==
    {Unreadable, File(<<>>),
     File(<<KeyBlock("none", "", "k1")>>),
     File(<<KeyBlock("AES-256-CBC", "pw", "k1")>>),
     File(<<KeyBlock("AES-256-CBC", "", "k1")>>),
     File(<<KeyBlock("AES-256-CBC", "pw", "k2")>>),
     File(<<KeyBlock("unknown", "pw", "k1")>>)}

CertFiles == {Unreadable, File(<<>>), File(<<CertBlock("k1")>>)}

\* Nothing read yet.
NoEnv ==
    [sysStore |-> [ok |-> FALSE, certs |-> {}], caFile |-> Unreadable,
     keyFile |-> Unreadable, certFile |-> Unreadable]

NoPool == [live |-> FALSE]

Init ==
    /\ desc \in Descriptors
    /\ env = NoEnv
    /\ pc = "start"
    /\ cfg = BadConfig
    /\ xPool = NilCertPool
    /\ cert = NoCert
    /\ pool = NoPool
    /\ err = "nil"
    /\ steps = <<>>
    /\ handed = <<>>
    /\ attempts = <<>>
    /\ clock = 0
    /\ cancelled = FALSE
    /\ keyTrace = [decrypt |-> "none", paired |-> "none"]
    /\ sysRead = FALSE

-----------------------------------------------------------------------------
\* NewFromCfgMap, pool.go:22-85, one action per step.

\* return nil, e
ReturnError(e) ==
    /\ pc' = "returned"
    /\ pool' = NoPool
    /\ err' = e

\* pool.go:24-35: render the connection string and parse it.
ParseConfigStep ==
    /\ pc = "start"
    /\ steps' = Append(steps, "parse")
    /\ LET c == ParseConfig(RenderURI(desc))
       IN  IF ~c.ok
           THEN ReturnError("parse config") /\ cfg' = cfg
           ELSE cfg' = c /\ pc' = "install" /\ UNCHANGED <<pool, err>>
    /\ UNCHANGED <<desc, env, xPool, cert, handed, attempts, clock, cancelled,
                   keyTrace, sysRead>>

\* An InstallHooks that leaves the connect timeout unset.
InstallHooksNoTimeout ==
    /\ pc = "install"
    /\ steps' = Append(steps, "install")
    /\ cfg' = [cfg EXCEPT !.AfterConnect = TRUE, !.DialFunc = "net.Dial",
                          !.PreferSimpleProtocol = TRUE]
    /\ pc' = "trust"
    /\ UNCHANGED <<desc, env, xPool, cert, pool, err, handed, attempts, clock,
                   cancelled, keyTrace, sysRead>>

\* pool.go:37-43: the hook, the dial function (net.Dial, which takes no
\* context), the simple protocol and the connect timeout.
InstallHooks ==
    /\ pc = "install"
    /\ steps' = Append(steps, "install")
    /\ cfg' = [cfg EXCEPT !.AfterConnect = TRUE, !.DialFunc = "net.Dial",
                          !.PreferSimpleProtocol = TRUE,
                          !.ConnectTimeout = ConnectTimeout]
    /\ pc' = "trust"
    /\ UNCHANGED <<desc, env, xPool, cert, pool, err, handed, attempts, clock,
                   cancelled, keyTrace, sysRead>>

\* pool.go:45-61. With no CA path the system pool is fetched and the function
\* returns at line 49 whatever x509.SystemCertPool() gave: the return is not
\* guarded by err != nil.
BuildTrustStore ==
    /\ pc = "trust"
    /\ steps' = Append(steps, "trust")
    /\ IF desc.SSLCAFile = ""
       THEN \E ss \in SysStores :
            /\ env' = [env EXCEPT !.sysStore = ss]
            /\ sysRead' = TRUE
            /\ xPool' = IF ss.ok THEN [nil |-> FALSE, certs |-> ss.certs]
                        ELSE NilCertPool
            /\ ReturnError(SystemPoolError(
                   IF ss.ok THEN "nil" ELSE "no system roots"))
       ELSE \E ca \in CAFiles :
            LET e == [env EXCEPT !.caFile = ca]
            IN  /\ env' = e
                /\ sysRead' = sysRead
                /\ IF ~ca.readable
                   THEN ReturnError("read ca file") /\ xPool' = xPool
                   ELSE /\ xPool' = CABundlePool(e)
                        /\ IF CABundlePool(e).certs = {}
                           THEN ReturnError("can't add ca cert to cert pool")
                           ELSE pc' = "identity" /\ UNCHANGED <<pool, err>>
    /\ UNCHANGED <<desc, cfg, cert, handed, attempts, clock, cancelled,
                   keyTrace>>

\* pool.go:63-66: withPassphrase on the key and certificate files the host
\* holds; a nil-pointer dereference inside it ends the call without a
\* return.
LoadIdentity ==
    /\ pc = "identity"
    /\ steps' = Append(steps, "identity")
    /\ \E kf \in KeyFiles, cf \in CertFiles, padOK \in BOOLEAN :
         LET e == [env EXCEPT !.keyFile = kf, !.certFile = cf]
             r == withPassphrase(e, desc.SSLKeyFilePassPhrase, padOK)
         IN  /\ env' = e
             /\ keyTrace' = [decrypt |-> r.decrypt, paired |-> r.paired]
             /\ cert' = r.cert
             /\ IF r.panic
                THEN pc' = "panicked" /\ UNCHANGED <<pool, err>>
                ELSE IF r.err # "nil"
                THEN ReturnError(r.err)
                ELSE pc' = "tls" /\ UNCHANGED <<pool, err>>
    /\ UNCHANGED <<desc, cfg, xPool, handed, attempts, clock, cancelled,
                   sysRead>>

\* pool.go:68-71: a fresh tls.Config with the identity and the trust store.
AssembledTLS(c, x) ==
    [present |-> TRUE, Certificates |-> <<c>>, RootCAs |-> x,
     ServerName |-> <<>>, InsecureSkipVerify |-> FALSE]

\* A policy that skips verification whether or not a hostname is given.
VerificationPolicyAlwaysSkip(tls, hostname) ==
    IF hostname # <<>>
    THEN [tls EXCEPT !.ServerName = hostname, !.InsecureSkipVerify = TRUE]
    ELSE [tls EXCEPT !.InsecureSkipVerify = TRUE]

\* pool.go:73-77.
VerificationPolicy(tls, hostname) ==
    IF hostname # <<>>
    THEN [tls EXCEPT !.ServerName = hostname]
    ELSE [tls EXCEPT !.InsecureSkipVerify = TRUE]

\* pool.go:68-77: only cfg.ConnConfig.TLSConfig is written; the fallbacks
\* ParseConfig derived from the SSL mode stay as parsed.
AttachTLS ==
    /\ pc = "tls"
    /\ steps' = Append(steps, "tls")
    /\ cfg' = [cfg EXCEPT !.TLSConfig =
                  VerificationPolicy(AssembledTLS(cert, xPool), desc.SSLHostname)]
    /\ pc' = "open"
    /\ UNCHANGED <<desc, env, xPool, cert, pool, err, handed, attempts, clock,
                   cancelled, keyTrace, sysRead>>

\* pgconn.ConnectConfig: the configurations tried in order are the primary
\* one (config.TLSConfig) and then config.Fallbacks.
AttemptList(c) == <<c.TLSConfig>> \o c.Fallbacks

\* The context the dial function is given is done: the connect timeout has
\* passed or the caller cancelled.
CtxDone == cancelled \/ clock >= cfg.ConnectTimeout

\* pool.go:79: pool.ConnectConfig(ctx, cfg) is called and the first attempt
\* starts dialing.
OpenPool ==
    /\ pc = "open"
    /\ steps' = Append(steps, "open")
    /\ handed' = Append(handed, cfg)
    /\ attempts' = <<AttemptList(cfg)[1]>>
    /\ clock' = 0
    /\ pc' = "dialing"
    /\ UNCHANGED <<desc, env, cfg, xPool, cert, pool, err, cancelled, keyTrace,
                   sysRead>>

\* A minute passes while cfg.ConnConfig.DialFunc is blocked in net.Dial
\* (pool.go:38-40): net.Dial has no context and no deadline, so the dial
\* goes on whether or not the context is done.
Tick ==
    /\ pc = "dialing"
    /\ clock < MaxClock
    /\ clock' = clock + 1
    /\ UNCHANGED <<desc, env, pc, cfg, xPool, cert, pool, err, steps, handed,
                   attempts, cancelled, keyTrace, sysRead>>

\* The caller cancels ctx during the dial.
Cancel ==
    /\ pc = "dialing"
    /\ ~CtxDone
    /\ cancelled' = TRUE
    /\ UNCHANGED <<desc, env, pc, cfg, xPool, cert, pool, err, steps, handed,
                   attempts, clock, keyTrace, sysRead>>

\* net.Dial returns and the attempt ends. It gives a connection only when
\* the dial, the handshake, the authentication and the AfterConnect hook all
\* succeed before the context is done. After a transport failure the next
\* fallback is tried; a server refusal or a hook error ends the call
\* (pool.go:79-84).
DialReturn ==
    /\ pc = "dialing"
    /\ \E outcome \in {"connected", "dial error", "handshake error",
                       "server refused", "hook error"} :
         LET list == AttemptList(handed[1])
             n == Len(attempts)
         IN  IF outcome = "connected" /\ ~CtxDone
             THEN /\ pc' = "returned"
                  /\ pool' = [live |-> TRUE]
                  /\ err' = "nil"
                  /\ attempts' = attempts
             ELSE IF outcome \in {"connected", "dial error", "handshake error"}
                     /\ n < Len(list)
             THEN /\ attempts' = Append(attempts, list[n + 1])
                  /\ UNCHANGED <<pc, pool, err>>
             ELSE /\ ReturnError("connect")
                  /\ attempts' = attempts
    /\ UNCHANGED <<desc, env, cfg, xPool, cert, steps, handed, clock, cancelled,
                   keyTrace, sysRead>>

Next ==
    \/ ParseConfigStep
    \/ InstallHooks
    \/ BuildTrustStore
    \/ LoadIdentity
    \/ AttachTLS
    \/ OpenPool
    \/ Tick
    \/ Cancel
    \/ DialReturn

Spec == Init /\ [][Next]_vars

-----------------------------------------------------------------------------
\* Properties of NewFromCfgMap and withPassphrase.

AllSteps == <<"parse", "install", "trust", "identity", "tls", "open">>
StepDone(s) == \E i \in 1..Len(steps) : steps[i] = s
LastStep == steps[Len(steps)]

\* The certificates of a CA bundle that parse, read off the file.
ParsedCerts(file) ==
    {file.blocks[i].id : i \in {j \in 1..Len(file.blocks) :
        file.blocks[j].Type = "CERTIFICATE" /\ file.blocks[j].parses}}

\* The key block withPassphrase works on, when both files were read and the
\* key file holds one.
HasKeyBlock ==
    /\ StepDone("identity")
    /\ env.keyFile.readable
    /\ env.certFile.readable
    /\ env.keyFile.blocks # <<>>
TheKeyBlock == Head(env.keyFile.blocks)

\* C1: with an empty CA path and a system trust store that can be fetched,
\* the trust-store step takes the system roots and the call goes on to load
\* the identity; it returns at that step only when fetching the system store
\* failed.
C1_SystemRootsContinue ==
    (StepDone("trust") /\ desc.SSLCAFile = "" /\ env.sysStore.ok)
        => /\ xPool = [nil |-> FALSE, certs |-> env.sysStore.certs]
           /\ ~(pc = "returned" /\ LastStep = "trust")

\* C2: every configuration handed to the pool has a TLS configuration whose
\* verification policy follows the descriptor's hostname alone: a hostname
\* gives ServerName = hostname with verification on, no hostname gives
\* InsecureSkipVerify with no ServerName; never both, never neither.
C2_PolicyFromHostname ==
    \A i \in 1..Len(handed) :
        LET t == handed[i].TLSConfig
        IN  /\ t.present
            /\ desc.SSLHostname # <<>> =>
                   t.ServerName = desc.SSLHostname /\ ~t.InsecureSkipVerify
            /\ desc.SSLHostname = <<>> =>
                   t.ServerName = <<>> /\ t.InsecureSkipVerify
            /\ (t.ServerName # <<>>) # t.InsecureSkipVerify

C2_Witness ==
    /\ Len(handed) = 1
    /\ desc.SSLHostname # <<>>
    /\ handed[1].TLSConfig.ServerName = desc.SSLHostname

\* C3: whatever the SSL mode, every connection attempt made from the handed
\* configuration, the primary one and each fallback, uses the assembled TLS
\* configuration: the identity, the built trust store and the policy.
C3_EveryAttemptAssembled ==
    \A i \in 1..Len(attempts) :
        /\ attempts[i].present
        /\ attempts[i].Certificates = <<cert>>
        /\ attempts[i].RootCAs = xPool
        /\ attempts[i] = handed[1].TLSConfig

\* C4: a readable key file with no PEM block makes withPassphrase return an
\* error and no identity, without a crash and without reaching decryption
\* or key pairing.
C4_NoPEMBlockIsError ==
    (/\ StepDone("identity")
     /\ env.keyFile.readable
     /\ env.certFile.readable
     /\ env.keyFile.blocks = <<>>)
        => /\ pc = "returned"
           /\ err # "nil"
           /\ ~cert.present
           /\ keyTrace = [decrypt |-> "none", paired |-> "none"]

\* C5: withPassphrase always attempts to decrypt the key block, with any
\* passphrase, the empty one too, and gives an identity only when that
\* decryption gave the key; with a wrong passphrase or a block that is not
\* encrypted it returns an error and no identity, and the key that reaches
\* the pairing step is never the undecrypted one.
C5_IdentityOnlyAfterDecryption ==
    /\ cert.present =>
           /\ HasKeyBlock
           /\ TheKeyBlock.dek \notin {"none", "unknown"}
           /\ TheKeyBlock.pass = desc.SSLKeyFilePassPhrase
           /\ keyTrace = [decrypt |-> "key", paired |-> "decrypted"]
    /\ HasKeyBlock =>
           /\ keyTrace.decrypt # "none"
           /\ keyTrace.paired # "raw"
           /\ (TheKeyBlock.dek = "none"
               \/ TheKeyBlock.pass # desc.SSLKeyFilePassPhrase) =>
                   pc = "returned" /\ err # "nil" /\ ~cert.present /\ ~pool.live

C5_Witness ==
    /\ HasKeyBlock
    /\ TheKeyBlock.dek = "AES-256-CBC"
    /\ TheKeyBlock.pass = "pw"
    /\ desc.SSLKeyFilePassPhrase = ""
    /\ keyTrace.decrypt = "noise"
    /\ err # "nil"

C7_DialAbandonedWhenCtxDone ==
    [][(pc = "dialing" /\ CtxDone) => clock' = clock]_vars

\* C8: with a CA path, the trust store of the handed TLS configuration holds
\* exactly the certificates parsed from that file, the system store is never
\* read, and a file with no valid certificate ends the call with an error
\* before the identity is loaded or a connection attempted.
C8_BundleOnly ==
    desc.SSLCAFile # "" =>
        /\ ~sysRead
        /\ \A i \in 1..Len(handed) :
               handed[i].TLSConfig.RootCAs =
                   [nil |-> FALSE, certs |-> ParsedCerts(env.caFile)]
        /\ (StepDone("trust") /\ ParsedCerts(env.caFile) = {}) =>
               /\ pc = "returned"
               /\ err # "nil"
               /\ LastStep = "trust"
               /\ handed = <<>>
               /\ attempts = <<>>

C8_Witness ==
    /\ desc.SSLCAFile # ""
    /\ Len(handed) = 1
    /\ handed[1].TLSConfig.RootCAs.certs = {"ca1"}
    /\ Len(env.caFile.blocks) = 2

\* C9: the steps of one call run in the fixed order, each at most once; an
\* error is returned by the step that met it and nothing runs after the
\* call has ended; the configuration is handed to the pool at most once,
\* with the hook, the timeout, the dial function and the whole TLS
\* configuration set, and is not changed afterwards.
C9_StepsInOrderOnce ==
    /\ [](/\ Len(steps) <= Len(AllSteps)
          /\ steps = SubSeq(AllSteps, 1, Len(steps))
          /\ err # "nil" => pc = "returned"
          /\ Len(handed) <= 1
          /\ \A i \in 1..Len(handed) :
                 /\ StepDone("open")
                 /\ handed[i] = cfg
                 /\ cfg.AfterConnect
                 /\ cfg.DialFunc = "net.Dial"
                 /\ cfg.ConnectTimeout = ConnectTimeout
                 /\ cfg.TLSConfig =
                        VerificationPolicy(AssembledTLS(cert, xPool),
                                           desc.SSLHostname)
                 /\ cert.present)
    /\ [][pc \notin {"returned", "panicked"}]_vars

C9_Witness ==
    /\ pc = "returned"
    /\ err # "nil"
    /\ steps = AllSteps
    /\ Len(attempts) = 2

-----------------------------------------------------------------------------
\* The connection string alone: descriptors in which one of the fields that
\* are rendered into it holds characters that mean something in a URI.

Alphabet == {"a", "5", "@", ":", "/", "?", "#", "&", "%"}
HostileValues == SeqsUpTo(Alphabet, MaxLen) \ {<<>>}
URIFields == {"DbUser", "Password", "DbHost", "DbName", "SSLMode"}

InitURI ==
    /\ desc \in {[PlainDesc EXCEPT ![f] = v] : f \in URIFields, v \in HostileValues}
    /\ env = NoEnv
    /\ pc = "start"
    /\ cfg = BadConfig
    /\ xPool = NilCertPool
    /\ cert = NoCert
    /\ pool = NoPool
    /\ err = "nil"
    /\ steps = <<>>
    /\ handed = <<>>
    /\ attempts = <<>>
    /\ clock = 0
    /\ cancelled = FALSE
    /\ keyTrace = [decrypt |-> "none", paired |-> "none"]
    /\ sysRead = FALSE

SpecURI == InitURI /\ [][ParseConfigStep]_vars

\* What the descriptor says the connection is, compared with what the parsed
\* configuration holds.
Faithful(d, c) ==
    /\ c.User = d.DbUser
    /\ c.Password = d.Password
    /\ c.Host = d.DbHost
    /\ c.Port = d.DbPort
    /\ c.Database = d.DbName
    /\ c.SSLMode = d.SSLMode
    /\ c.MaxConns = d.MaxConns
    /\ c.RuntimeParams = {}

\* C10: rendering the connection string from the descriptor and parsing it
\* back either fails or gives a configuration whose user, password, host,
\* port, database, SSL mode and max-connections are the descriptor's, with
\* no connection parameter added.
C10_RoundTripFaithful == cfg.ok => Faithful(desc, cfg)

====
